---- MODULE Spec2Model ----
(***************************************************************************)
(* A model of the formula library calories_VO2max.py (VO2max, basal        *)
(* metabolic rate, caloric expenditure, training zones).                   *)
(*                                                                         *)
(* Numbers.  The Python code computes with floats; every formula is a      *)
(* closed-form expression over decimal literals.  The model computes the   *)
(* same expressions, in the order the code writes them, over exact         *)
(* rationals num/den.  A Python result is the rounding of the value the    *)
(* model computes, so an equality stated here is the equality "to          *)
(* floating-point tolerance" of the two Python values.  TLC's integers are *)
(* 32 bits wide, which the products of six-digit literals exceed, so       *)
(* numerators and denominators are arbitrary-precision integers kept as    *)
(* little-endian sequences of limbs.                                       *)
(*                                                                         *)
(* State.  The library is a module that a caller (an interpreter session,  *)
(* the doctest runner of the __main__ block) imports and calls function by *)
(* function.  The state is the module-level state those calls share -- the *)
(* colo palette and the title attribute of the pyplot module -- plus the   *)
(* caller's position and the call it made last with its outcome.           *)
(***************************************************************************)
EXTENDS Integers, Sequences, FiniteSets, TLC

(***************************************************************************)
(* Arbitrary-precision naturals: little-endian limbs, no leading zero      *)
(* limb, zero is the empty sequence.                                       *)
(***************************************************************************)
Base == 10 ^ 4

Limb(a, i) == IF i <= Len(a) THEN a[i] ELSE 0

RECURSIVE MagTrim(_)
MagTrim(a) ==
    IF a = <<>> THEN <<>>
    ELSE IF a[Len(a)] = 0 THEN MagTrim(SubSeq(a, 1, Len(a) - 1))
    ELSE a

RECURSIVE MagAddC(_, _, _, _)
MagAddC(a, b, i, c) ==
    IF i > Len(a) /\ i > Len(b)
    THEN (IF c = 0 THEN <<>> ELSE <<c>>)
    ELSE LET s == Limb(a, i) + Limb(b, i) + c
         IN  <<s % Base>> \o MagAddC(a, b, i + 1, s \div Base)

MagAdd(a, b) == MagAddC(a, b, 1, 0)

\* a - b for a >= b
RECURSIVE MagSubC(_, _, _, _)
MagSubC(a, b, i, c) ==
    IF i > Len(a) THEN <<>>
    ELSE LET s == a[i] - Limb(b, i) - c
         IN  IF s < 0 THEN <<s + Base>> \o MagSubC(a, b, i + 1, 1)
             ELSE <<s>> \o MagSubC(a, b, i + 1, 0)

MagSub(a, b) == MagTrim(MagSubC(a, b, 1, 0))

RECURSIVE MagCmpAt(_, _, _)
MagCmpAt(a, b, i) ==
    IF i = 0 THEN 0
    ELSE IF a[i] < b[i] THEN -1
    ELSE IF a[i] > b[i] THEN 1
    ELSE MagCmpAt(a, b, i - 1)

MagCmp(a, b) ==
    IF Len(a) < Len(b) THEN -1
    ELSE IF Len(a) > Len(b) THEN 1
    ELSE MagCmpAt(a, b, Len(a))

RECURSIVE MagMulLimb(_, _, _, _)
MagMulLimb(a, k, i, c) ==
    IF i > Len(a) THEN (IF c = 0 THEN <<>> ELSE <<c>>)
    ELSE LET s == a[i] * k + c
         IN  <<s % Base>> \o MagMulLimb(a, k, i + 1, s \div Base)

MagShift(a) == IF a = <<>> THEN <<>> ELSE <<0>> \o a

RECURSIVE MagMulAt(_, _, _)
MagMulAt(a, b, j) ==
    IF j > Len(b) THEN <<>>
    ELSE MagAdd(MagTrim(MagMulLimb(a, b[j], 1, 0)), MagShift(MagMulAt(a, b, j + 1)))

MagMul(a, b) == IF a = <<>> \/ b = <<>> THEN <<>> ELSE MagMulAt(a, b, 1)

RECURSIVE MagOfNat(_)
MagOfNat(n) == IF n = 0 THEN <<>> ELSE <<n % Base>> \o MagOfNat(n \div Base)

(***************************************************************************)
(* Signed integers [sg, mag] and rationals [num, den] with den > 0.  A     *)
(* rational is not reduced to lowest terms: two rationals are compared by  *)
(* cross-multiplication (REq, RLt), never structurally.                    *)
(***************************************************************************)
Big(sg, mag) == [sg |-> IF mag = <<>> THEN 0 ELSE sg, mag |-> mag]

BigOfInt(i) ==
    IF i < 0 THEN Big(-1, MagOfNat(-i)) ELSE Big(1, MagOfNat(i))

BigNeg(x) == Big(-x.sg, x.mag)

BigAdd(x, y) ==
    IF x.sg = 0 THEN y
    ELSE IF y.sg = 0 THEN x
    ELSE IF x.sg = y.sg THEN Big(x.sg, MagAdd(x.mag, y.mag))
    ELSE LET c == MagCmp(x.mag, y.mag)
         IN  IF c = 0 THEN Big(0, <<>>)
             ELSE IF c > 0 THEN Big(x.sg, MagSub(x.mag, y.mag))
             ELSE Big(y.sg, MagSub(y.mag, x.mag))

BigMulMag(x, m) == Big(x.sg, MagMul(x.mag, m))

BigCmp(x, y) ==
    IF x.sg # y.sg THEN (IF x.sg < y.sg THEN -1 ELSE 1)
    ELSE IF x.sg = 0 THEN 0
    ELSE x.sg * MagCmp(x.mag, y.mag)

Rat(num, den) == [num |-> num, den |-> den]

\* the integer i
Int2R(i) == Rat(BigOfInt(i), <<1>>)

RECURSIVE MagPow10(_)
MagPow10(k) == IF k = 0 THEN <<1>> ELSE MagMulLimb(MagPow10(k - 1), 10, 1, 0)

\* the decimal literal n * 10^-k, e.g. Dec(37182, 3) is 37.182
Dec(n, k) == Rat(BigOfInt(n), MagPow10(k))

RAdd(x, y) ==
    IF x.den = y.den THEN Rat(BigAdd(x.num, y.num), x.den)
    ELSE Rat(BigAdd(BigMulMag(x.num, y.den), BigMulMag(y.num, x.den)),
             MagMul(x.den, y.den))

RNeg(x) == Rat(BigNeg(x.num), x.den)

RSub(x, y) == RAdd(x, RNeg(y))

RMul(x, y) ==
    Rat(Big(x.num.sg * y.num.sg, MagMul(x.num.mag, y.num.mag)),
        IF x.num.sg * y.num.sg = 0 THEN <<1>> ELSE MagMul(x.den, y.den))

\* x / y for y # 0
RDiv(x, y) ==
    Rat(Big(x.num.sg * y.num.sg, MagMul(x.num.mag, y.den)),
        IF x.num.sg = 0 THEN <<1>> ELSE MagMul(x.den, y.num.mag))

RIsZero(x) == x.num.sg = 0

RCmp(x, y) == BigCmp(BigMulMag(x.num, y.den), BigMulMag(y.num, x.den))

REq(x, y) == RCmp(x, y) = 0

RLt(x, y) == RCmp(x, y) < 0

RLe(x, y) == RCmp(x, y) <= 0

RZero == Int2R(0)

(***************************************************************************)
(* What a call gives its caller: a value, or an exception.                 *)
(***************************************************************************)
Ok(v) == [exc |-> "none", val |-> v]

Raise(e) == [exc |-> e, val |-> "none"]

NoneVal == "None"

(***************************************************************************)
(* calories_VO2max.py, the formula functions.  Each operator computes the  *)
(* expression of the function's body, operation by operation.  A division  *)
(* of Python floats by zero raises ZeroDivisionError.                      *)
(***************************************************************************)
\* the module-level palette
coloInit ==
    << "blue", "silver", "darkgoldenrod", "darkgreen",
       "darkmagenta", "red", "darkorange", "gold", "darkorchid",
       "aqua", "cadetblue", "darkolivegreen", "burlywood", "chartreuse",
       "chocolate", "coral", "cornflowerblue", "black", "darkkhaki", "pink",
       "moccasin", "limegreen" >>

\* Cal_min = MET * weight_kg * 3.5 / 200.
Cal_min_from_MET(MET, weight_kg) ==
    Ok(RDiv(RMul(RMul(MET, weight_kg), Dec(35, 1)), Int2R(200)))

\* VO2_bicycle with the work rate left in watts: 1.8 in place of 1.8 x 6
VO2_bicycle_NoWattConversion(Power_Watts, weight_kg) ==
    IF RIsZero(weight_kg) THEN Raise("ZeroDivisionError")
    ELSE Ok(RAdd(RMul(Dec(18, 1), RDiv(Power_Watts, weight_kg)), Int2R(7)))

\* return 10.8 * (Power_Watts / weight_kg) + 7.
VO2_bicycle(Power_Watts, weight_kg) ==
    IF RIsZero(weight_kg) THEN Raise("ZeroDivisionError")
    ELSE Ok(RAdd(RMul(Dec(108, 1), RDiv(Power_Watts, weight_kg)), Int2R(7)))

\* the Mifflin-St Jeor term shared by the two branches of the else
BMR_term(W, H, A, c) ==
    RAdd(RSub(RAdd(RMul(Int2R(10), W), RMul(Dec(625, 2), H)),
              RMul(Int2R(5), A)),
         Int2R(c))

\* BMR with the two genders exchanged
BMR_GenderSwapped(W, H, A, F, gender, Katch_McArdle) ==
    IF Katch_McArdle
    THEN Ok(RAdd(Int2R(370),
                 RMul(RMul(Dec(216, 1), RSub(Int2R(1), F)), W)))
    ELSE Ok(RAdd(RMul(gender, BMR_term(W, H, A, 5)),
                 RMul(RSub(Int2R(1), gender), BMR_term(W, H, A, -161))))

BMR(W, H, A, F, gender, Katch_McArdle) ==
    IF Katch_McArdle
    THEN Ok(RAdd(Int2R(370),
                 RMul(RMul(Dec(216, 1), RSub(Int2R(1), F)), W)))
    ELSE Ok(RAdd(RMul(RSub(Int2R(1), gender), BMR_term(W, H, A, 5)),
                 RMul(gender, BMR_term(W, H, A, -161))))

\* return BMR * MET / 24.
calories_per_hr_from_MET(bmr, MET) == Ok(RDiv(RMul(bmr, MET), Int2R(24)))

KJ_to_kcal == Dec(239006, 6)

\* the two regressions for one heart rate (numpy applies them elementwise)
EE_VO2max_at(gender, age, weight, VO2max, hr) ==
    RAdd(RAdd(Dec(-593954, 4),
              RMul(gender,
                   RAdd(RAdd(RAdd(RAdd(Dec(-363781, 4), RMul(Dec(271, 3), age)),
                                  RMul(Dec(394, 3), weight)),
                             RMul(Dec(404, 3), VO2max)),
                        RMul(Dec(634, 3), hr)))),
         RMul(RSub(Int2R(1), gender),
              RAdd(RAdd(RAdd(RMul(Dec(274, 3), age), RMul(Dec(103, 3), weight)),
                        RMul(Dec(380, 3), VO2max)),
                   RMul(Dec(450, 3), hr))))

EE_at(gender, age, weight, hr) ==
    RAdd(RMul(gender,
              RAdd(RAdd(RAdd(Dec(-550969, 4), RMul(Dec(6309, 4), hr)),
                        RMul(Dec(1988, 4), weight)),
                   RMul(Dec(2017, 4), age))),
         RMul(RSub(Int2R(1), gender),
              RAdd(RSub(RAdd(Dec(-204022, 4), RMul(Dec(4472, 4), hr)),
                        RMul(Dec(1263, 4), weight)),
                   RMul(Dec(74, 3), age))))

\* energy_expenditure_kg with the gender convention of BMR (0 male, 1 female)
energy_expenditure_kg_GenderOfBMR(gender, age, weight, VO2max, heart_rate) ==
    Ok(<< [i \in 1..Len(heart_rate) |->
              RMul(EE_VO2max_at(RSub(Int2R(1), gender), age, weight, VO2max,
                                heart_rate[i]),
                   KJ_to_kcal)],
          [i \in 1..Len(heart_rate) |->
              RMul(EE_at(RSub(Int2R(1), gender), age, weight, heart_rate[i]),
                   KJ_to_kcal)] >>)

\* heart_rate is a list (made an array); VO2max a scalar
energy_expenditure_kg(gender, age, weight, VO2max, heart_rate) ==
    Ok(<< [i \in 1..Len(heart_rate) |->
              RMul(EE_VO2max_at(gender, age, weight, VO2max, heart_rate[i]),
                   KJ_to_kcal)],
          [i \in 1..Len(heart_rate) |->
              RMul(EE_at(gender, age, weight, heart_rate[i]), KJ_to_kcal)] >>)

\* percentage_HRmax = 0.6463 * percentage_VO2max + 37.182
invert_Swain(percentage_VO2max) ==
    Ok(RAdd(RMul(Dec(6463, 4), percentage_VO2max), Dec(37182, 3)))

\* Swain with the slope 0.6464 that the docstring of calories_kg_HR quotes
Swain_6464(percentage_HRmax) ==
    Ok(RDiv(RSub(percentage_HRmax, Dec(37182, 3)), Dec(6464, 4)))

\* percentage_VO2max = (percentage_HRmax - 37.182)/0.6463
Swain(percentage_HRmax) ==
    Ok(RDiv(RSub(percentage_HRmax, Dec(37182, 3)), Dec(6463, 4)))

\* return 15. * (HRmax / HRrest)
VO2max_from_HR(HRmax, HRrest) ==
    IF RIsZero(HRrest) THEN Raise("ZeroDivisionError")
    ELSE Ok(RMul(Int2R(15), RDiv(HRmax, HRrest)))

adjustement == <<-10, 0, 5, 10>>

\* the place in a TLA+ sequence of index i of a Python list of length n (a
\* negative index counts from the end), 0 when i is out of range
PyIndex(i, n) ==
    IF 0 <= i /\ i < n THEN i + 1
    ELSE IF -n <= i /\ i < 0 THEN n + i + 1
    ELSE 0

\* return 180. - age + adjustement[level]
anabolic_threshold_Fair(age, level) ==
    IF PyIndex(level, Len(adjustement)) = 0 THEN Raise("IndexError")
    ELSE Ok(RAdd(RSub(Int2R(180), age),
                 Int2R(adjustement[PyIndex(level, Len(adjustement))])))

RECURSIVE RSum(_)
RSum(s) == IF s = <<>> THEN RZero ELSE RAdd(s[1], RSum(Tail(s)))

\* np.polyfit(x, y, 1.): the coefficients <<slope, intercept>> of the line that
\* minimises the sum of the squared residuals (the solution of the normal
\* equations), highest power first
polyfit1(x, y) ==
    LET n == Int2R(Len(x))
        Sx == RSum(x)
        Sy == RSum(y)
        Sxx == RSum([i \in 1..Len(x) |-> RMul(x[i], x[i])])
        Sxy == RSum([i \in 1..Len(x) |-> RMul(x[i], y[i])])
        slope == RDiv(RSub(RMul(n, Sxy), RMul(Sx, Sy)),
                      RSub(RMul(n, Sxx), RMul(Sx, Sx)))
    IN  <<slope, RDiv(RSub(Sy, RMul(slope, Sx)), n)>>

MET_bicycle_speed == <<Int2R(10), Int2R(15), Int2R(20), Int2R(25), Int2R(30)>>

MET_bicycle_METs == <<Dec(48, 1), Dec(59, 1), Dec(71, 1), Dec(84, 1), Dec(98, 1)>>

MET_bicycle_Watts == <<Int2R(84), Int2R(103), Int2R(124), Int2R(147), Int2R(172)>>

\* MET_bicycle with the two coefficients of each fit taken in the other order
MET_bicycle_CoeffSwapped(speed_kmh, weight_kg) ==
    LET Watts_per_kg ==
            [i \in 1..Len(MET_bicycle_Watts) |-> RDiv(MET_bicycle_Watts[i], weight_kg)]
        coeff1 == polyfit1(MET_bicycle_speed, MET_bicycle_METs)
        coeff2 == polyfit1(MET_bicycle_speed, Watts_per_kg)
    IN  Ok(<<RAdd(RMul(coeff1[2], speed_kmh), coeff1[1]),
             RAdd(RMul(coeff2[2], speed_kmh), coeff2[1])>>)

\* for weight_kg # 0 (numpy divides the array by 0. without raising and the fit
\* is then of infinities)
MET_bicycle(speed_kmh, weight_kg) ==
    LET Watts_per_kg ==
            [i \in 1..Len(MET_bicycle_Watts) |-> RDiv(MET_bicycle_Watts[i], weight_kg)]
        coeff1 == polyfit1(MET_bicycle_speed, MET_bicycle_METs)
        coeff2 == polyfit1(MET_bicycle_speed, Watts_per_kg)
    IN  Ok(<<RAdd(RMul(coeff1[1], speed_kmh), coeff1[2]),
             RAdd(RMul(coeff2[1], speed_kmh), coeff2[2])>>)

from_lactate_to_anabolic == 30

\* aerobic_threshold_from_lactate with the 30 bpm added, not subtracted
aerobic_threshold_from_lactate_Above(HRmax, lactate_threshold_pcHR) ==
    IF RIsZero(HRmax) THEN Raise("ZeroDivisionError")
    ELSE Ok(RMul(RDiv(RAdd(RMul(RMul(lactate_threshold_pcHR, Dec(1, 2)), HRmax),
                           Int2R(from_lactate_to_anabolic)),
                      HRmax),
                 Int2R(100)))

\* return (lactate_threshold_pcHR * 1e-2 * HRmax - from_lactate_to_anabolic)
\*         / HRmax * 100.
aerobic_threshold_from_lactate(HRmax, lactate_threshold_pcHR) ==
    IF RIsZero(HRmax) THEN Raise("ZeroDivisionError")
    ELSE Ok(RMul(RDiv(RSub(RMul(RMul(lactate_threshold_pcHR, Dec(1, 2)), HRmax),
                           Int2R(from_lactate_to_anabolic)),
                      HRmax),
                 Int2R(100)))

\* VO2max_Rockport.py: weight_lbs = weight_kg / 2.2, then
\* VO2max = 132.853 - (0.0769 * weight_lbs) - (0.3877 * age) + (6.315 * gender)
\*          - (3.2648 * time_min) - (0.156 * HR)
VO2max_Rockport(age, weight_kg, time_min, HR, gender) ==
    LET weight_lbs == RDiv(weight_kg, Dec(22, 1))
    IN  Ok(RSub(RSub(RAdd(RSub(RSub(Dec(132853, 3),
                                    RMul(Dec(769, 4), weight_lbs)),
                               RMul(Dec(3877, 4), age)),
                          RMul(Dec(6315, 3), Int2R(gender))),
                     RMul(Dec(32648, 4), time_min)),
                RMul(Dec(156, 3), HR)))

\* return HRmax-HRrest
Heart_rate_reserve(HRmax, HRrest) == RSub(HRmax, HRrest)

aerobic_level1 == 50
aerobic_level2 == 75
anaerobic_level_default == 80

\* (HRreserve * (level / 100.) + HRrest) / HRmax * 100., the expression of
\* aerobic_training's two values and of anaerobic_training's one
training_level(HRmax, HRrest, level) ==
    RMul(RDiv(RAdd(RMul(Heart_rate_reserve(HRmax, HRrest),
                        RDiv(level, Int2R(100))),
                   HRrest),
              HRmax),
         Int2R(100))

\* aerobic_training taking the percentages of the reserve without adding
\* the resting heart rate
aerobic_training_NoRest(HRmax, HRrest) ==
    IF RIsZero(HRmax) THEN Raise("ZeroDivisionError")
    ELSE LET HRreserve == Heart_rate_reserve(HRmax, HRrest)
         IN  Ok(<<RMul(RDiv(RMul(HRreserve,
                                 RDiv(Int2R(aerobic_level1), Int2R(100))),
                            HRmax), Int2R(100)),
                  RMul(RDiv(RMul(HRreserve,
                                 RDiv(Int2R(aerobic_level2), Int2R(100))),
                            HRmax), Int2R(100))>>)

aerobic_training(HRmax, HRrest) ==
    IF RIsZero(HRmax) THEN Raise("ZeroDivisionError")
    ELSE Ok(<<training_level(HRmax, HRrest, Int2R(aerobic_level1)),
              training_level(HRmax, HRrest, Int2R(aerobic_level2))>>)

anaerobic_training(HRmax, HRrest, anaerobic_level) ==
    IF RIsZero(HRmax) THEN Raise("ZeroDivisionError")
    ELSE Ok(training_level(HRmax, HRrest, anaerobic_level))

(***************************************************************************)
(* RER(): the 31-point table, and scipy's interp1d over it.                *)
(***************************************************************************)
\* np.arange(start, stop, step): start + i*step for every i with value < stop
RECURSIVE Arange(_, _, _, _)
Arange(start, stop, step, i) ==
    LET v == RAdd(start, RMul(Int2R(i), step))
    IN  IF RLt(v, stop) THEN <<v>> \o Arange(start, stop, step, i + 1) ELSE <<>>

RQ_tab == <<Dec(707, 3)>> \o Arange(Dec(71, 2), Dec(1001, 3), Dec(1, 2), 0)

\* percent of carbohydrates, in hundredths of a percent
RERcal_CHOpc_hundredths ==
    << 0, 110, 476, 840, 1200, 1560, 1920, 2230, 2630,
       2990, 3340, 3690, 4030, 4380, 4720,
       5070, 5410, 5750, 6080, 6420, 6750, 7080, 7410,
       7740, 8070, 8400, 8720,
       9040, 9360, 9680, 10000 >>

RERcal_CHOpc ==
    [i \in 1..Len(RERcal_CHOpc_hundredths) |-> Dec(RERcal_CHOpc_hundredths[i], 2)]

RERcal_Fatpc == [i \in 1..Len(RERcal_CHOpc) |-> RSub(Int2R(100), RERcal_CHOpc[i])]

\* kcal per litre of O2, in thousandths
RERcal_thousandths ==
    << 4686, 4690, 4702, 4714, 4727, 4739,
       4751, 4764, 4776, 4788, 4801, 4813, 4825,
       4838, 4850, 4862, 4875, 4887, 4899, 4911,
       4924, 4936, 4948, 4961, 4973, 4985, 4998,
       5010, 5022, 5035, 5047 >>

RERcal == [i \in 1..Len(RERcal_thousandths) |-> Dec(RERcal_thousandths[i], 3)]

\* numpy.searchsorted(x, v), side left: how many elements of the sorted x are < v
SearchSorted(x, v) == Cardinality({i \in 1..Len(x) : RLt(x[i], v)})

Clip(i, lo, hi) == IF i < lo THEN lo ELSE IF i > hi THEN hi ELSE i

\* interp1d of kind 'previous': the value at the node below, no slope
interp1d_Previous(x, y, x_new) ==
    LET hi0 == Clip(SearchSorted(x, x_new), 1, Len(x) - 1)
    IN  y[hi0]

\* interp1d(x, y, fill_value='extrapolate')(x_new), kind linear: the segment is
\* found by searchsorted clipped to 1..len(x)-1 (so the end segments extrapolate),
\* and the value is slope*(x_new - x_lo) + y_lo
interp1d(x, y, x_new) ==
    LET hi0 == Clip(SearchSorted(x, x_new), 1, Len(x) - 1)
        lo == hi0
        hi == hi0 + 1
        slope == RDiv(RSub(y[hi], y[lo]), RSub(x[hi], x[lo]))
    IN  RAdd(RMul(slope, RSub(x_new, x[lo])), y[lo])

ZipLen(a, b) == IF Len(a) < Len(b) THEN Len(a) ELSE Len(b)

\* VO2_input and RQ_input as lists (a float is made a list of one)
cal_VO2_RER(VO2_input, RQ_input) ==
    LET cal_min_kg ==
            [i \in 1..ZipLen(VO2_input, RQ_input) |->
                RMul(RMul(VO2_input[i], Dec(1, 3)),
                     interp1d(RQ_tab, RERcal, RQ_input[i]))]
    IN  IF Len(VO2_input) = 1
        THEN IF cal_min_kg = <<>> THEN Raise("IndexError")
             ELSE Ok(<<cal_min_kg[1], RERcal, RERcal_CHOpc[1], RERcal_Fatpc[1]>>)
        ELSE Ok(<<cal_min_kg, RERcal, RERcal_CHOpc, RERcal_Fatpc>>)

cal_RER(percentage_HR, HRmax, HRrest, VO2max) ==
    IF REq(HRmax, HRrest) THEN Raise("ZeroDivisionError")
    ELSE LET frac_VO2max ==
                 RDiv(RSub(RMul(RMul(percentage_HR, Dec(1, 2)), HRmax), HRrest),
                      RSub(HRmax, HRrest))
             VO2work == RMul(VO2max, frac_VO2max)
             r == cal_VO2_RER(<<VO2work>>,
                              <<RDiv(percentage_HR, Int2R(100))>>)
         IN  IF r.exc # "none" THEN r ELSE Ok(r.val[1])

calories_kg_HR_HRr(percentage_HR, HRmax, HRrest, VO2max) ==
    IF REq(HRmax, HRrest) THEN Raise("ZeroDivisionError")
    ELSE LET frac_VO2max ==
                 RDiv(RSub(RMul(RMul(percentage_HR, Dec(1, 2)), HRmax), HRrest),
                      RSub(HRmax, HRrest))
         IN  Ok(RDiv(RDiv(RMul(frac_VO2max, VO2max), Dec(35, 1)), Int2R(60)))

\* calories_kg_HR with the slope 0.6464 that its docstring quotes
calories_kg_HR_6464(percentage_HR, VO2max) ==
    Ok(RDiv(RMul(RDiv(RDiv(RSub(percentage_HR, Dec(37182, 3)), Dec(6464, 4)),
                      Int2R(100)),
                 VO2max),
            Int2R(200)))

\* Cal_min_kg = (percentage_HR-37.182) / 0.6463 / 100. * VO2max / 200.
calories_kg_HR(percentage_HR, VO2max) ==
    Ok(RDiv(RMul(RDiv(RDiv(RSub(percentage_HR, Dec(37182, 3)), Dec(6463, 4)),
                      Int2R(100)),
                 VO2max),
            Int2R(200)))

\* VO2max_from_VO2_HR telling an invalid heart rate apart by returning -1
VO2max_from_VO2_HR_Sentinel(VO2exercise, HR, HRmax, HRrest) ==
    IF RLt(HRmax, HR) \/ RLt(HR, HRrest) THEN Ok(Int2R(-1))
    ELSE IF REq(HRmax, HRrest) THEN Raise("ZeroDivisionError")
    ELSE LET fraction_VO2max == RDiv(RSub(HR, HRrest), RSub(HRmax, HRrest))
         IN  IF RIsZero(fraction_VO2max) THEN Raise("ZeroDivisionError")
             ELSE Ok(RDiv(VO2exercise, fraction_VO2max))

\* VO2max_from_VO2_HR with the test of the lower end left out
VO2max_from_VO2_HR_NoLowerCheck(VO2exercise, HR, HRmax, HRrest) ==
    IF RLt(HRmax, HR) THEN Ok(RZero)
    ELSE IF REq(HRmax, HRrest) THEN Raise("ZeroDivisionError")
    ELSE LET fraction_VO2max == RDiv(RSub(HR, HRrest), RSub(HRmax, HRrest))
         IN  IF RIsZero(fraction_VO2max) THEN Raise("ZeroDivisionError")
             ELSE Ok(RDiv(VO2exercise, fraction_VO2max))

VO2max_from_VO2_HR(VO2exercise, HR, HRmax, HRrest) ==
    IF RLt(HRmax, HR) \/ RLt(HR, HRrest) THEN Ok(RZero)
    ELSE IF REq(HRmax, HRrest) THEN Raise("ZeroDivisionError")
    ELSE LET fraction_VO2max == RDiv(RSub(HR, HRrest), RSub(HRmax, HRrest))
         IN  IF RIsZero(fraction_VO2max) THEN Raise("ZeroDivisionError")
             ELSE Ok(RDiv(VO2exercise, fraction_VO2max))

\* VO2max_from_METS without the conversion from METS to VO2
VO2max_from_METS_NoConversion(METS, HR, HRmax, HRrest) ==
    VO2max_from_VO2_HR(METS, HR, HRmax, HRrest)

VO2max_from_METS(METS, HR, HRmax, HRrest) ==
    LET VO2exercise == RMul(Dec(35, 1), METS)
    IN  VO2max_from_VO2_HR(VO2exercise, HR, HRmax, HRrest)

(***************************************************************************)
(* The plotting functions.  The arrays they compute go to pyplot and to    *)
(* stdout only; what the caller and the later calls can observe is the     *)
(* exception raised, if any, and the module state left behind.  title is   *)
(* the value of the attribute plt.title when the function runs.            *)
(***************************************************************************)
\* matplotlib.pyplot.title as imported: a function
pltTitleFunction == "<function title>"

\* tit of plot_threshold: 'HRmax=' + str(HRmax) + 'HRrest=' + str(HRrest) +
\* 'Approximate VO2max' + str(VO2max), with HRmax = 185., HRrest = 65.
plot_threshold_tit == "HRmax=185.0HRrest=65.0Approximate VO2max42.69230769230769"

\* plt.title(...): calling the attribute; a str is not callable
CallTitle(title) == IF title = pltTitleFunction THEN Ok(NoneVal) ELSE Raise("TypeError")

\* the value plot_threshold leaves in plt.title: line 843 assigns, it does not call
plot_threshold_title(title) == plot_threshold_tit

plot_threshold(title) == Ok(NoneVal)

\* n is len(VO2max_range); gender indexes gender_name
MyZone_VO2_plot(n, gender, MyZoneVO2max, palette, title) ==
    IF n > Len(palette) THEN Raise("IndexError")
    ELSE IF ~MyZoneVO2max /\ n = 0 THEN Raise("UnboundLocalError")
    ELSE IF gender \notin {0, 1, -1, -2} THEN Raise("IndexError")
    ELSE IF CallTitle(title).exc # "none" THEN CallTitle(title)
    ELSE IF n = 0 THEN Raise("UnboundLocalError")
    ELSE Ok(NoneVal)

\* n is len(weight_range_kg)
energy_expenditure(n, palette, title) ==
    IF n > Len(palette) THEN Raise("IndexError")
    ELSE CallTitle(title)

(***************************************************************************)
(* The inputs the caller draws from.                                       *)
(***************************************************************************)
MaxHRk == 10
MaxMETSk == 2
MaxPct == 101
MaxHRLen == 2
MaxRange == 2
MaxPowerk == 2

HRGrid == {Int2R(50 + 15 * k) : k \in 0..MaxHRk}
HRmaxGrid == {Int2R(155), Int2R(185)}
HRrestGrid == {Int2R(65), Int2R(155)}
METSGrid == {Int2R(4 * k) : k \in 0..MaxMETSk}
VO2Grid == {Dec(35 * 4 * k, 1) : k \in 0..MaxMETSk} \cup {Dec(425, 1)}
\* whole percentages, and the halves between them
PctGrid == {Int2R(p) : p \in 0..MaxPct} \cup {Dec(10 * p + 5, 1) : p \in 68..MaxPct}
PowerGrid == {Int2R(100 * k) : k \in 0..MaxPowerk}
WeightGrid == {Int2R(0), Int2R(50), Int2R(63)}
HeightGrid == {Int2R(169), Dec(1805, 1)}
AgeGrid == {Int2R(48), Int2R(51)}
FatGrid == {Int2R(19), Dec(19, 2)}
GenderGrid == {0, 1}
VO2maxGrid == {Int2R(48), RDiv(Int2R(15 * 185), Int2R(65))}
HRListGrid ==
    UNION {[1..n -> {Int2R(110), Int2R(150)}] : n \in 0..MaxHRLen}
RangeLens == 0..MaxRange \cup {Len(coloInit) + 1}

MaxLevel == 4
LevelGrid == -1..MaxLevel
FairAgeGrid == AgeGrid \cup {Int2R(30), Int2R(65)}

MaxSpeedk == 7
SpeedGrid == {Int2R(5 * k) : k \in 0..MaxSpeedk}
BicycleWeightGrid == {Int2R(50), Int2R(63), Int2R(70)}

MaxLactatek == 3
ThresholdHRmaxGrid == HRmaxGrid \cup {Int2R(0), Int2R(200)}
\* 75, 80, 85, 90 percent, and the 185*0.85 of the documented call
LactateGrid == {Int2R(75 + 5 * k) : k \in 0..MaxLactatek} \cup {Dec(15725, 2)}

MaxWalkk == 2
\* the walk of the script's example: 20 min at 0.75*184 = 138 bpm, 61 kg
WalkTimeGrid == {Int2R(15 + 5 * k) : k \in 0..MaxWalkk}
WalkHRGrid == {Int2R(138), Int2R(120)}
WalkWeightGrid == {Int2R(61), Int2R(80)}

MaxRestk == 5
TrainHRmaxGrid == HRmaxGrid \cup {Int2R(0)}
\* resting heart rates 40, 65, ..., some of them not below HRmax
TrainHRrestGrid == {Int2R(40 + 25 * k) : k \in 0..MaxRestk}
\* the default, the "up to 85% for top athtelic", and the whole reserve
AnaerobicLevelGrid == {Int2R(anaerobic_level_default), Int2R(85), Int2R(100)}

(***************************************************************************)
(* The session: the caller at its prompt calls a function (one action per  *)
(* function, the whole call) and comes back to the prompt.                 *)
(***************************************************************************)
VARIABLES pc, fn, args, ret, colo, plt_title

vars == <<pc, fn, args, ret, colo, plt_title>>

Init ==
    /\ pc = "prompt"
    /\ fn = "none"
    /\ args = <<>>
    /\ ret = Ok(NoneVal)
    /\ colo = coloInit
    /\ plt_title = pltTitleFunction

Call_VO2max_from_VO2_HR ==
    \E v \in VO2Grid, hr \in HRGrid, hm \in HRmaxGrid, hrest \in HRrestGrid :
        /\ pc = "prompt"
        /\ pc' = "returned"
        /\ fn' = "VO2max_from_VO2_HR"
        /\ args' = <<v, hr, hm, hrest>>
        /\ ret' = VO2max_from_VO2_HR(v, hr, hm, hrest)
        /\ UNCHANGED <<colo, plt_title>>

Call_VO2max_from_METS ==
    \E m \in METSGrid, hr \in HRGrid, hm \in HRmaxGrid, hrest \in HRrestGrid :
        /\ pc = "prompt"
        /\ pc' = "returned"
        /\ fn' = "VO2max_from_METS"
        /\ args' = <<m, hr, hm, hrest>>
        /\ ret' = VO2max_from_METS(m, hr, hm, hrest)
        /\ UNCHANGED <<colo, plt_title>>

Call_invert_Swain ==
    \E x \in PctGrid :
        /\ pc = "prompt"
        /\ pc' = "returned"
        /\ fn' = "invert_Swain"
        /\ args' = <<x>>
        /\ ret' = invert_Swain(x)
        /\ UNCHANGED <<colo, plt_title>>

Call_Swain ==
    \E x \in PctGrid :
        /\ pc = "prompt"
        /\ pc' = "returned"
        /\ fn' = "Swain"
        /\ args' = <<x>>
        /\ ret' = Swain(x)
        /\ UNCHANGED <<colo, plt_title>>

Call_BMR ==
    \E W \in WeightGrid, H \in HeightGrid, A \in AgeGrid, F \in FatGrid,
       g \in GenderGrid, km \in BOOLEAN :
        /\ pc = "prompt"
        /\ pc' = "returned"
        /\ fn' = "BMR"
        /\ args' = <<W, H, A, F, g, km>>
        /\ ret' = BMR(W, H, A, F, Int2R(g), km)
        /\ UNCHANGED <<colo, plt_title>>

Call_VO2_bicycle ==
    \E P \in PowerGrid, w \in WeightGrid :
        /\ pc = "prompt"
        /\ pc' = "returned"
        /\ fn' = "VO2_bicycle"
        /\ args' = <<P, w>>
        /\ ret' = VO2_bicycle(P, w)
        /\ UNCHANGED <<colo, plt_title>>

Call_calories_kg_HR ==
    \E p \in PctGrid, V \in VO2maxGrid :
        /\ pc = "prompt"
        /\ pc' = "returned"
        /\ fn' = "calories_kg_HR"
        /\ args' = <<p, V>>
        /\ ret' = calories_kg_HR(p, V)
        /\ UNCHANGED <<colo, plt_title>>

Call_cal_RER ==
    \E p \in PctGrid, hm \in HRmaxGrid, hrest \in HRrestGrid, V \in VO2maxGrid :
        /\ pc = "prompt"
        /\ pc' = "returned"
        /\ fn' = "cal_RER"
        /\ args' = <<p, hm, hrest, V>>
        /\ ret' = cal_RER(p, hm, hrest, V)
        /\ UNCHANGED <<colo, plt_title>>

Call_energy_expenditure_kg ==
    \E g \in GenderGrid, A \in AgeGrid, w \in WeightGrid, V \in VO2maxGrid,
       hrs \in HRListGrid :
        /\ pc = "prompt"
        /\ pc' = "returned"
        /\ fn' = "energy_expenditure_kg"
        /\ args' = <<g, A, w, V, hrs>>
        /\ ret' = energy_expenditure_kg(Int2R(g), A, w, V, hrs)
        /\ UNCHANGED <<colo, plt_title>>

Call_plot_threshold ==
    /\ pc = "prompt"
    /\ pc' = "returned"
    /\ fn' = "plot_threshold"
    /\ args' = <<>>
    /\ ret' = plot_threshold(plt_title)
    /\ plt_title' = plot_threshold_title(plt_title)
    /\ UNCHANGED colo

Call_MyZone_VO2_plot ==
    \E n \in RangeLens, g \in GenderGrid, mz \in BOOLEAN :
        /\ pc = "prompt"
        /\ pc' = "returned"
        /\ fn' = "MyZone_VO2_plot"
        /\ args' = <<n, g, mz>>
        /\ ret' = MyZone_VO2_plot(n, g, mz, colo, plt_title)
        /\ UNCHANGED <<colo, plt_title>>

Call_energy_expenditure ==
    \E n \in RangeLens :
        /\ pc = "prompt"
        /\ pc' = "returned"
        /\ fn' = "energy_expenditure"
        /\ args' = <<n>>
        /\ ret' = energy_expenditure(n, colo, plt_title)
        /\ UNCHANGED <<colo, plt_title>>

Call_anabolic_threshold_Fair ==
    \E A \in FairAgeGrid, level \in LevelGrid :
        /\ pc = "prompt"
        /\ pc' = "returned"
        /\ fn' = "anabolic_threshold_Fair"
        /\ args' = <<A, level>>
        /\ ret' = anabolic_threshold_Fair(A, level)
        /\ UNCHANGED <<colo, plt_title>>

Call_MET_bicycle ==
    \E s \in SpeedGrid, w \in BicycleWeightGrid :
        /\ pc = "prompt"
        /\ pc' = "returned"
        /\ fn' = "MET_bicycle"
        /\ args' = <<s, w>>
        /\ ret' = MET_bicycle(s, w)
        /\ UNCHANGED <<colo, plt_title>>

Call_aerobic_threshold_from_lactate ==
    \E hm \in ThresholdHRmaxGrid, p \in LactateGrid :
        /\ pc = "prompt"
        /\ pc' = "returned"
        /\ fn' = "aerobic_threshold_from_lactate"
        /\ args' = <<hm, p>>
        /\ ret' = aerobic_threshold_from_lactate(hm, p)
        /\ UNCHANGED <<colo, plt_title>>

Call_VO2max_Rockport ==
    \E a \in AgeGrid, w \in WalkWeightGrid, t \in WalkTimeGrid,
       h \in WalkHRGrid, g \in GenderGrid :
        /\ pc = "prompt"
        /\ pc' = "returned"
        /\ fn' = "VO2max_Rockport"
        /\ args' = <<a, w, t, h, g>>
        /\ ret' = VO2max_Rockport(a, w, t, h, g)
        /\ UNCHANGED <<colo, plt_title>>

Call_aerobic_training ==
    \E hm \in TrainHRmaxGrid, hr \in TrainHRrestGrid :
        /\ pc = "prompt"
        /\ pc' = "returned"
        /\ fn' = "aerobic_training"
        /\ args' = <<hm, hr>>
        /\ ret' = aerobic_training(hm, hr)
        /\ UNCHANGED <<colo, plt_title>>

Call_anaerobic_training ==
    \E hm \in TrainHRmaxGrid, hr \in TrainHRrestGrid, l \in AnaerobicLevelGrid :
        /\ pc = "prompt"
        /\ pc' = "returned"
        /\ fn' = "anaerobic_training"
        /\ args' = <<hm, hr, l>>
        /\ ret' = anaerobic_training(hm, hr, l)
        /\ UNCHANGED <<colo, plt_title>>

Call_Heart_rate_reserve ==
    \E hm \in TrainHRmaxGrid, hr \in TrainHRrestGrid :
        /\ pc = "prompt"
        /\ pc' = "returned"
        /\ fn' = "Heart_rate_reserve"
        /\ args' = <<hm, hr>>
        /\ ret' = Ok(Heart_rate_reserve(hm, hr))
        /\ UNCHANGED <<colo, plt_title>>

\* the caller has the outcome and goes on to its next statement
Prompt ==
    /\ pc = "returned"
    /\ pc' = "prompt"
    /\ fn' = "none"
    /\ args' = <<>>
    /\ ret' = Ok(NoneVal)
    /\ UNCHANGED <<colo, plt_title>>

Next ==
    \/ Call_VO2max_from_VO2_HR
    \/ Call_VO2max_from_METS
    \/ Call_invert_Swain
    \/ Call_Swain
    \/ Call_BMR
    \/ Call_VO2_bicycle
    \/ Call_calories_kg_HR
    \/ Call_cal_RER
    \/ Call_energy_expenditure_kg
    \/ Call_plot_threshold
    \/ Call_MyZone_VO2_plot
    \/ Call_energy_expenditure
    \/ Call_anabolic_threshold_Fair
    \/ Call_MET_bicycle
    \/ Call_aerobic_threshold_from_lactate
    \/ Call_VO2max_Rockport
    \/ Call_aerobic_training
    \/ Call_anaerobic_training
    \/ Call_Heart_rate_reserve
    \/ Prompt

Spec == Init /\ [][Next]_vars

(***************************************************************************)
(* The properties.                                                         *)
(***************************************************************************)
Returned(name) == pc = "returned" /\ fn = name

OutOfRange(HR, HRmax, HRrest) == RLt(HRmax, HR) \/ RLt(HR, HRrest)

\* C1: VO2max_from_VO2_HR and VO2max_from_METS return 0, raising nothing, for
\* every VO2exercise (every METS) whenever HR > HRmax or HR < HRrest.
C1_OutOfRangeReturnsZero ==
    (/\ pc = "returned"
     /\ fn \in {"VO2max_from_VO2_HR", "VO2max_from_METS"}
     /\ OutOfRange(args[2], args[3], args[4]))
        => (ret.exc = "none" /\ REq(ret.val, RZero))

\* a non-zero METS at a heart rate below HRrest came back as 0
C1_Witness ==
    /\ Returned("VO2max_from_METS")
    /\ ~RIsZero(args[1])
    /\ RLt(args[2], args[4])
    /\ RLt(args[4], args[3])
    /\ ret.exc = "none"
    /\ RIsZero(ret.val)

\* C2: for every x in 0..100, Swain(invert_Swain(x)) = x.
C2_SwainRoundTrip ==
    (/\ Returned("invert_Swain")
     /\ RLe(RZero, args[1])
     /\ RLe(args[1], Int2R(100)))
        => (/\ ret.exc = "none"
            /\ Swain(ret.val).exc = "none"
            /\ REq(Swain(ret.val).val, args[1]))

\* invert_Swain(80) = 88.886 was returned, and Swain takes it back to 80
C2_Witness ==
    /\ Returned("invert_Swain")
    /\ REq(args[1], Int2R(80))
    /\ REq(ret.val, Dec(88886, 3))
    /\ REq(Swain(ret.val).val, Int2R(80))

\* C3: no call changes the module state another function reads (the colo
\* palette, the attributes of pyplot such as plt.title), so a plotting function
\* called later completes as it does when called first.
C3_Stateless ==
    /\ colo = coloInit
    /\ plt_title = pltTitleFunction
    /\ Returned("energy_expenditure")
           => ret = energy_expenditure(args[1], coloInit, pltTitleFunction)
    /\ Returned("MyZone_VO2_plot")
           => ret = MyZone_VO2_plot(args[1], args[2], args[3], coloInit,
                                    pltTitleFunction)

\* C4: for HRrest < HR <= HRmax, VO2max_from_METS(METS, HR, HRmax, HRrest) is
\* 3.5*METS*(HRmax - HRrest)/(HR - HRrest); it is 44.8 for (8, 140, 185, 65)
\* and 3.5*METS at HR = HRmax.
C4_VO2maxFromMETS ==
    (/\ Returned("VO2max_from_METS")
     /\ RLt(args[4], args[2])
     /\ RLe(args[2], args[3]))
        => (/\ ret.exc = "none"
            /\ REq(ret.val,
                   RDiv(RMul(RMul(Dec(35, 1), args[1]), RSub(args[3], args[4])),
                        RSub(args[2], args[4])))
            /\ REq(args[2], args[3]) => REq(ret.val, RMul(Dec(35, 1), args[1]))
            /\ (args = <<Int2R(8), Int2R(140), Int2R(185), Int2R(65)>>)
                   => REq(ret.val, Dec(448, 1)))

\* the documented example returned 44.8
C4_Witness ==
    /\ Returned("VO2max_from_METS")
    /\ args = <<Int2R(8), Int2R(140), Int2R(185), Int2R(65)>>
    /\ ret.exc = "none"
    /\ REq(ret.val, Dec(448, 1))

\* 10*W + 6.25*H - 5*A + c
C5_MifflinStJeor(W, H, A, c) ==
    RAdd(RSub(RAdd(RMul(Int2R(10), W), RMul(Dec(625, 2), H)), RMul(Int2R(5), A)), c)

C6_BMRHarrisBenedict ==
    (Returned("BMR") /\ ~args[6])
        => (/\ ret.exc = "none"
            /\ args[5] = 0
                   => REq(ret.val,
                          RAdd(RSub(RAdd(RMul(Dec(13397, 3), args[1]),
                                         RMul(Dec(4799, 3), args[2])),
                                    RMul(Dec(5677, 3), args[3])),
                               Dec(88362, 3)))
            /\ args[5] = 1
                   => REq(ret.val,
                          RAdd(RSub(RAdd(RMul(Dec(9247, 3), args[1]),
                                         RMul(Dec(3098, 3), args[2])),
                                    RMul(Dec(4330, 3), args[3])),
                               Dec(447593, 3))))

\* x is the decimal int + frac * 10^-k to within 10^-k
Near(x, int, frac, k) ==
    /\ RLe(RAdd(Int2R(int), Dec(frac - 1, k)), x)
    /\ RLe(x, RAdd(Int2R(int), Dec(frac + 1, k)))

\* C7: for weight_kg > 0, VO2_bicycle(Power_Watts, weight_kg) is
\* 1.8*(6*Power_Watts)/weight_kg + 7 = 10.8*Power_Watts/weight_kg + 7; it is
\* 24.142857142857142 for (100, 63) and 7 at power 0.
C7_VO2Bicycle ==
    (Returned("VO2_bicycle") /\ RLt(RZero, args[2]))
        => (/\ ret.exc = "none"
            /\ REq(ret.val,
                   RAdd(RDiv(RMul(Dec(18, 1), RMul(Int2R(6), args[1])), args[2]),
                        Int2R(7)))
            /\ REq(ret.val,
                   RAdd(RDiv(RMul(Dec(108, 1), args[1]), args[2]), Int2R(7)))
            /\ RIsZero(args[1]) => REq(ret.val, Int2R(7))
            /\ (args = <<Int2R(100), Int2R(63)>>)
                   => (/\ REq(ret.val, RDiv(Int2R(169), Int2R(7)))
                       /\ Near(ret.val, 24, 142857143, 9)))

\* the documented example returned 24.142857143 to nine places
C7_Witness ==
    /\ Returned("VO2_bicycle")
    /\ args = <<Int2R(100), Int2R(63)>>
    /\ ret.exc = "none"
    /\ Near(ret.val, 24, 142857143, 9)

C9_Segment(x, v) ==
    LET below == {k \in 1..(Len(x) - 1) : RLe(x[k], v)}
    IN  IF below = {} THEN 1 ELSE CHOOSE k \in below : \A j \in below : j <= k

C9_Lerp(x, y, v) ==
    LET k == C9_Segment(x, v)
    IN  RDiv(RAdd(RMul(y[k], RSub(x[k + 1], v)), RMul(y[k + 1], RSub(v, x[k]))),
             RSub(x[k + 1], x[k]))

\* VO2max * ((p/100*HRmax - HRrest)/(HRmax - HRrest)) * 0.001 * f
C9_Formula(p, HRmax, HRrest, VO2max, f) ==
    RMul(RMul(RMul(VO2max,
                   RDiv(RSub(RMul(RDiv(p, Int2R(100)), HRmax), HRrest),
                        RSub(HRmax, HRrest))),
              Dec(1, 3)),
         f)

\* C9: for HRrest # HRmax, cal_RER(p, HRmax, HRrest, VO2max) is
\* VO2max * ((p/100*HRmax - HRrest)/(HRmax - HRrest)) * 0.001 * f(p/100) with f
\* the linear interpolation of the 31-point (RQ, kcal per litre) table; for an
\* integer p in 71..100 f(p/100) is the table's entry p - 70 (counted from 0);
\* cal_RER(75, 185, 65, 15*185/65) is 0.12434179086538462 and
\* cal_RER(100, HRmax, HRrest, V) is V * 0.005047.
C9_CalRER ==
    (Returned("cal_RER") /\ ~REq(args[2], args[3]))
        => (/\ ret.exc = "none"
            /\ Len(RQ_tab) = 31
            /\ Len(RERcal) = 31
            /\ REq(ret.val,
                   C9_Formula(args[1], args[2], args[3], args[4],
                              C9_Lerp(RQ_tab, RERcal, RDiv(args[1], Int2R(100)))))
            /\ \A p \in 71..100 :
                   REq(args[1], Int2R(p))
                       => (/\ REq(RQ_tab[p - 69], RDiv(args[1], Int2R(100)))
                           /\ REq(ret.val,
                                  C9_Formula(args[1], args[2], args[3], args[4],
                                             RERcal[p - 69])))
            /\ REq(args[1], Int2R(100)) => REq(ret.val, RMul(args[4], Dec(5047, 6)))
            /\ (/\ REq(args[1], Int2R(75)) /\ REq(args[2], Int2R(185))
                /\ REq(args[3], Int2R(65))
                /\ REq(args[4], RDiv(Int2R(15 * 185), Int2R(65))))
                   => Near(ret.val, 0, 124341791, 9))

\* the documented example returned 0.124341791 to nine places
C9_Witness ==
    /\ Returned("cal_RER")
    /\ REq(args[1], Int2R(75))
    /\ REq(args[2], Int2R(185))
    /\ REq(args[3], Int2R(65))
    /\ REq(args[4], RDiv(Int2R(15 * 185), Int2R(65)))
    /\ ret.exc = "none"
    /\ Near(ret.val, 0, 124341791, 9)

\* cal_RER at a percentage between two nodes, where f is a proper mean
C9_WitnessBetweenNodes ==
    /\ Returned("cal_RER")
    /\ REq(args[1], Dec(755, 1))
    /\ REq(args[2], Int2R(185))
    /\ REq(args[3], Int2R(65))
    /\ ret.exc = "none"
    /\ REq(ret.val,
           C9_Formula(args[1], args[2], args[3], args[4], Dec(4745, 3)))

C10_MaleVO2(age, weight, VO2max, hr) ==
    RMul(Dec(239006, 6),
         RAdd(RAdd(RAdd(RAdd(RAdd(Dec(-593954, 4), Dec(-363781, 4)),
                             RMul(Dec(271, 3), age)),
                        RMul(Dec(394, 3), weight)),
                   RMul(Dec(404, 3), VO2max)),
              RMul(Dec(634, 3), hr)))

C10_FemaleVO2(age, weight, VO2max, hr) ==
    RMul(Dec(239006, 6),
         RAdd(RAdd(RAdd(RAdd(Dec(-593954, 4), RMul(Dec(274, 3), age)),
                        RMul(Dec(103, 3), weight)),
                   RMul(Dec(380, 3), VO2max)),
              RMul(Dec(450, 3), hr)))

C10_Male(age, weight, hr) ==
    RMul(Dec(239006, 6),
         RAdd(RAdd(RAdd(Dec(-550969, 4), RMul(Dec(6309, 4), hr)),
                   RMul(Dec(1988, 4), weight)),
              RMul(Dec(2017, 4), age)))

C10_Female(age, weight, hr) ==
    RMul(Dec(239006, 6),
         RAdd(RSub(RAdd(Dec(-204022, 4), RMul(Dec(4472, 4), hr)),
                   RMul(Dec(1263, 4), weight)),
              RMul(Dec(74, 3), age)))

\* C10: for gender 1 (male) or 0 (female) and n heart rates,
\* energy_expenditure_kg returns two sequences of length n, element i being, in
\* kcal, the with-VO2max regression and the without-VO2max regression of that
\* gender at HR[i]; the second does not depend on VO2max; the example
\* (1, 48, 63, 48, [110, ...]) has first element 7.454238630999999.
C10_EnergyExpenditureKg ==
    Returned("energy_expenditure_kg")
        => (/\ ret.exc = "none"
            /\ Len(ret.val) = 2
            /\ Len(ret.val[1]) = Len(args[5])
            /\ Len(ret.val[2]) = Len(args[5])
            /\ \A i \in 1..Len(args[5]) :
                   /\ args[1] = 1
                          => (/\ REq(ret.val[1][i],
                                     C10_MaleVO2(args[2], args[3], args[4], args[5][i]))
                              /\ REq(ret.val[2][i],
                                     C10_Male(args[2], args[3], args[5][i])))
                   /\ args[1] = 0
                          => (/\ REq(ret.val[1][i],
                                     C10_FemaleVO2(args[2], args[3], args[4], args[5][i]))
                              /\ REq(ret.val[2][i],
                                     C10_Female(args[2], args[3], args[5][i])))
            /\ (/\ args[1] = 1 /\ args[2] = Int2R(48) /\ args[3] = Int2R(63)
                /\ args[4] = Int2R(48) /\ Len(args[5]) > 0
                /\ args[5][1] = Int2R(110))
                   => Near(ret.val[1][1], 7, 454238631, 9))

\* the documented example, cut to two heart rates, returned 7.454238631 first
C10_Witness ==
    /\ Returned("energy_expenditure_kg")
    /\ args = <<1, Int2R(48), Int2R(63), Int2R(48), <<Int2R(110), Int2R(150)>> >>
    /\ Len(ret.val[1]) = 2
    /\ Near(ret.val[1][1], 7, 454238631, 9)


\* C11: anabolic_threshold_Fair(age, level) accepts every level from 0 to 4 and
\* returns 180 - age plus the adjustment of the level (-10, 0, +5, +10 for the
\* levels 0, 1, 2, 3); age 30 at level 2 gives 155.
C11_FairAcceptsLevels ==
    (Returned("anabolic_threshold_Fair") /\ args[2] \in 0..4)
        => (/\ ret.exc = "none"
            /\ args[2] = 0 => REq(ret.val, RSub(RSub(Int2R(180), args[1]), Int2R(10)))
            /\ args[2] = 1 => REq(ret.val, RSub(Int2R(180), args[1]))
            /\ args[2] = 2 => REq(ret.val, RAdd(RSub(Int2R(180), args[1]), Int2R(5)))
            /\ args[2] = 3 => REq(ret.val, RAdd(RSub(Int2R(180), args[1]), Int2R(10)))
            /\ (args[1] = Int2R(30) /\ args[2] = 2) => REq(ret.val, Int2R(155)))

\* C11 without the level the list has no entry for: the levels 0 to 3
C11_FairLevels0To3 ==
    (Returned("anabolic_threshold_Fair") /\ args[2] \in 0..3)
        => (/\ ret.exc = "none"
            /\ args[2] = 0 => REq(ret.val, RSub(RSub(Int2R(180), args[1]), Int2R(10)))
            /\ args[2] = 1 => REq(ret.val, RSub(Int2R(180), args[1]))
            /\ args[2] = 2 => REq(ret.val, RAdd(RSub(Int2R(180), args[1]), Int2R(5)))
            /\ args[2] = 3 => REq(ret.val, RAdd(RSub(Int2R(180), args[1]), Int2R(10)))
            /\ (args[1] = Int2R(30) /\ args[2] = 2) => REq(ret.val, Int2R(155)))

\* level 4 was asked for and the call raised IndexError
C11_Level4Raises ==
    /\ Returned("anabolic_threshold_Fair")
    /\ args[2] = 4
    /\ ret.exc = "IndexError"


\* the residuals that the values of MET_bicycle leave at the five tabulated
\* points sum to 0 and are orthogonal to the speeds: the two conditions that
\* single out the least-squares line among the lines
C12_Residual(k, w, i) ==
    RSub(IF k = 1 THEN MET_bicycle_METs[i] ELSE RDiv(MET_bicycle_Watts[i], w),
         MET_bicycle(MET_bicycle_speed[i], w).val[k])

C12_LeastSquares(k, w) ==
    /\ RIsZero(RSum([i \in 1..5 |-> C12_Residual(k, w, i)]))
    /\ RIsZero(RSum([i \in 1..5 |->
                        RMul(MET_bicycle_speed[i], C12_Residual(k, w, i))]))

\* C12: MET_bicycle(speed_kmh, weight_kg) returns first the least-squares line
\* through the five (speed, MET) points at speed_kmh, 0.25*speed_kmh + 2.2
\* whatever the weight, and second the least-squares line through the watts
\* divided by weight_kg, (4.4*speed_kmh + 38)/weight_kg; so
\* Cal_min_from_MET(MET_bicycle(25, 50)[0], 50) is 8.45*50*3.5/200 = 7.39375.
C12_METBicycle ==
    Returned("MET_bicycle")
        => (/\ ret.exc = "none"
            /\ Len(ret.val) = 2
            /\ REq(ret.val[1], RAdd(RMul(Dec(25, 2), args[1]), Dec(22, 1)))
            /\ REq(ret.val[2],
                   RDiv(RAdd(RMul(Dec(44, 1), args[1]), Int2R(38)), args[2]))
            /\ C12_LeastSquares(1, args[2])
            /\ C12_LeastSquares(2, args[2])
            /\ (args = <<Int2R(25), Int2R(50)>>)
                   => (/\ REq(Cal_min_from_MET(ret.val[1], args[2]).val,
                              RDiv(RMul(RMul(Dec(845, 2), Int2R(50)), Dec(35, 1)),
                                   Int2R(200)))
                       /\ REq(Cal_min_from_MET(ret.val[1], args[2]).val,
                              Dec(739375, 5))))

\* the documented example: 8.45 MET at 25 km/h, 7.39375 Cal/min at 50 kg
C12_Witness ==
    /\ Returned("MET_bicycle")
    /\ args = <<Int2R(25), Int2R(50)>>
    /\ REq(ret.val[1], Dec(845, 2))
    /\ REq(ret.val[2], Dec(296, 2))
    /\ REq(Cal_min_from_MET(ret.val[1], args[2]).val, Dec(739375, 5))


\* C13: for HRrest < HRmax and every HR with HRrest <= HR <= HRmax, the two
\* ends included, VO2max_from_VO2_HR completes without error and returns
\* VO2exercise*(HRmax - HRrest)/(HR - HRrest).
C13_ValidDomainCompletes ==
    (/\ Returned("VO2max_from_VO2_HR")
     /\ RLt(args[4], args[3])
     /\ RLe(args[4], args[2])
     /\ RLe(args[2], args[3]))
        => (/\ ret.exc = "none"
            /\ REq(RMul(ret.val, RSub(args[2], args[4])),
                   RMul(args[1], RSub(args[3], args[4]))))

\* C13 away from the lower end: for HRrest < HR <= HRmax the call completes
\* and returns the quotient
C13_AboveRestCompletes ==
    (/\ Returned("VO2max_from_VO2_HR")
     /\ RLt(args[4], args[2])
     /\ RLe(args[2], args[3]))
        => (/\ ret.exc = "none"
            /\ REq(ret.val,
                   RDiv(RMul(args[1], RSub(args[3], args[4])),
                        RSub(args[2], args[4]))))

\* the call at HR = HRrest < HRmax raised ZeroDivisionError
C13_AtRestRaises ==
    /\ Returned("VO2max_from_VO2_HR")
    /\ REq(args[2], args[4])
    /\ RLt(args[4], args[3])
    /\ ret.exc = "ZeroDivisionError"

\* C14: a 0 from VO2max_from_VO2_HR does not tell an invalid input: for
\* HRrest < HR <= HRmax the result is 0 exactly when VO2exercise is 0, and for
\* HR outside [HRrest, HRmax] it is 0 for every VO2exercise, so 0 comes back
\* from an in-range and from an out-of-range heart rate alike.
C14_ZeroIsAmbiguous ==
    Returned("VO2max_from_VO2_HR")
        => (/\ (RLt(args[4], args[2]) /\ RLe(args[2], args[3]))
                   => (/\ ret.exc = "none"
                       /\ RIsZero(ret.val) <=> RIsZero(args[1]))
            /\ OutOfRange(args[2], args[3], args[4])
                   => (/\ ret.exc = "none"
                       /\ RIsZero(ret.val)
                       /\ RLt(args[4], args[3])
                              => LET inRange == VO2max_from_VO2_HR(RZero, args[3],
                                                                   args[3], args[4])
                                 IN  /\ inRange.exc = ret.exc
                                     /\ REq(inRange.val, ret.val)))

\* 0 came back from a heart rate in range, the exercise VO2 being 0
C14_Witness ==
    /\ Returned("VO2max_from_VO2_HR")
    /\ RLt(args[4], args[2])
    /\ RLe(args[2], args[3])
    /\ RIsZero(args[1])
    /\ ret.exc = "none"
    /\ RIsZero(ret.val)

\* 0 came back from a heart rate above HRmax, the exercise VO2 not being 0
C14_WitnessOutOfRange ==
    /\ Returned("VO2max_from_VO2_HR")
    /\ RLt(args[4], args[3])
    /\ RLt(args[3], args[2])
    /\ ~RIsZero(args[1])
    /\ ret.exc = "none"
    /\ RIsZero(ret.val)


\* C15: for HRmax > 0, aerobic_threshold_from_lactate(HRmax, p) returns the
\* percentage of HRmax whose heart rate is 30 bpm below that of p:
\* result*HRmax/100 = p*HRmax/100 - 30, result = p - 3000/HRmax < p; the
\* documented call (185, 185*0.85) returns 141.0337837837838.
C15_AerobicThreshold ==
    (Returned("aerobic_threshold_from_lactate") /\ RLt(RZero, args[1]))
        => (/\ ret.exc = "none"
            /\ REq(RDiv(RMul(ret.val, args[1]), Int2R(100)),
                   RSub(RDiv(RMul(args[2], args[1]), Int2R(100)), Int2R(30)))
            /\ REq(ret.val, RSub(args[2], RDiv(Int2R(3000), args[1])))
            /\ RLt(ret.val, args[2])
            /\ (args = <<Int2R(185), Dec(15725, 2)>>)
                   => Near(ret.val, 141, 33783784, 9))

\* the documented call returned 141.033783784 to nine places
C15_Witness ==
    /\ Returned("aerobic_threshold_from_lactate")
    /\ args = <<Int2R(185), Dec(15725, 2)>>
    /\ ret.exc = "none"
    /\ Near(ret.val, 141, 33783784, 9)


\* C16: VO2max_Rockport(age, weight_kg, time_min, HR, gender) returns
\* 132.853 - 0.0769*weight_lbs - 0.3877*age + 6.315*gender - 3.2648*time_min
\* - 0.156*HR, where weight_lbs is weight_kg converted to pounds
\* (1 kg = 2.2 lb), gender being 1 for male and 0 for female.
C16_RockportPounds ==
    Returned("VO2max_Rockport")
        => (/\ ret.exc = "none"
            /\ LET weight_lbs == RMul(Dec(22, 1), args[2])
               IN  REq(ret.val,
                       RSub(RSub(RAdd(RSub(RSub(Dec(132853, 3),
                                                RMul(Dec(769, 4), weight_lbs)),
                                           RMul(Dec(3877, 4), args[1])),
                                      RMul(Dec(6315, 3), Int2R(args[5]))),
                                 RMul(Dec(32648, 4), args[3])),
                            RMul(Dec(156, 3), args[4]))))

\* what the code returns instead: the formula with weight_kg / 2.2 as the
\* weight, which for the script's example is 31.6022 where the formula with
\* 2.2 * weight_kg gives 23.4144
C16_RockportDividesBy22 ==
    Returned("VO2max_Rockport")
        => (/\ ret.exc = "none"
            /\ REq(RAdd(ret.val, RMul(Dec(769, 4), RDiv(args[2], Dec(22, 1)))),
                   RSub(RSub(RAdd(RSub(Dec(132853, 3),
                                       RMul(Dec(3877, 4), args[1])),
                                  RMul(Dec(6315, 3), Int2R(args[5]))),
                             RMul(Dec(32648, 4), args[3])),
                        RMul(Dec(156, 3), args[4]))))

\* the script's example call returned, and not the value of the claim
C16_ExampleDiverges ==
    /\ Returned("VO2max_Rockport")
    /\ args = <<Int2R(48), Int2R(61), Int2R(20), Int2R(138), 1>>
    /\ ret.exc = "none"
    /\ Near(ret.val, 31, 6022, 4)


\* the arguments HRmax, HRrest of a training-zone call satisfy 0 < HRrest < HRmax
C17_Domain == RLt(RZero, args[2]) /\ RLt(args[2], args[1])

\* C17: for every 0 < HRrest < HRmax, with (lo, hi) the two values of
\* aerobic_training(HRmax, HRrest) and an the value of
\* anaerobic_training(HRmax, HRrest) at the default level 80,
\* 50 < lo < hi < an < 100; and anaerobic_training(HRmax, HRrest, 100) is 100.
C17_TrainingZones ==
    /\ (Returned("aerobic_training") /\ C17_Domain)
           => (/\ ret.exc = "none"
               /\ LET lo == ret.val[1]
                      hi == ret.val[2]
                      an == anaerobic_training(args[1], args[2],
                                Int2R(anaerobic_level_default))
                  IN  /\ an.exc = "none"
                      /\ RLt(Int2R(50), lo)
                      /\ RLt(lo, hi)
                      /\ RLt(hi, an.val)
                      /\ RLt(an.val, Int2R(100)))
    /\ (Returned("anaerobic_training") /\ C17_Domain)
           => (/\ ret.exc = "none"
               /\ REq(args[3], Int2R(anaerobic_level_default))
                      => (RLt(Int2R(80), ret.val) /\ RLt(ret.val, Int2R(100)))
               /\ REq(args[3], Int2R(100)) => REq(ret.val, Int2R(100)))

\* aerobic_training returned two values for 0 < HRrest < HRmax
C17_Witness ==
    /\ Returned("aerobic_training")
    /\ C17_Domain
    /\ ret.exc = "none"
    /\ RLt(ret.val[1], ret.val[2])

\* anaerobic_training returned at level 100 for 0 < HRrest < HRmax
C17_WitnessWholeReserve ==
    /\ Returned("anaerobic_training")
    /\ C17_Domain
    /\ REq(args[3], Int2R(100))
    /\ ret.exc = "none"


\* the arguments W, H, A, F, gender of a BMR call are in the documented ranges:
\* W > 0 kg, H > 0 cm, 0 < A <= 100 years, 0 <= F <= 100 percent, gender 0 or 1
C18_Valid ==
    /\ RLt(RZero, args[1])
    /\ RLt(RZero, args[2])
    /\ RLt(RZero, args[3]) /\ RLe(args[3], Int2R(100))
    /\ RLe(RZero, args[4]) /\ RLe(args[4], Int2R(100))
    /\ args[5] \in {0, 1}

\* C18: BMR returns a positive number of kcal per day for every valid input
\* (W > 0, H > 0, 0 < A <= 100, body fat F in percentage with 0 <= F <= 100,
\* gender 0 or 1), with either value of Katch_McArdle.
C18_BMRPositive ==
    (Returned("BMR") /\ C18_Valid)
        => (ret.exc = "none" /\ RLt(RZero, ret.val))

\* the Katch-McArdle branch is 370 + 21.6*(1 - F)*W with F as passed, and is
\* positive where F is at most 1; the other branch is positive on these inputs
C18_PositiveUnlessPercentage ==
    (Returned("BMR") /\ C18_Valid)
        => (/\ ret.exc = "none"
            /\ args[6] => REq(ret.val,
                              RAdd(Int2R(370),
                                   RMul(RMul(Dec(216, 1), RSub(Int2R(1), args[4])),
                                        args[1])))
            /\ (~args[6] \/ RLe(args[4], Int2R(1))) => RLt(RZero, ret.val))

\* BMR(63., 169., 51., 19., 0, Katch_McArdle=True) returned -24124.4
C18_NegativeBMR ==
    /\ Returned("BMR")
    /\ args = <<Int2R(63), Int2R(169), Int2R(51), Int2R(19), 0, TRUE>>
    /\ ret.exc = "none"
    /\ REq(ret.val, RNeg(Dec(241244, 1)))

====
